---------------------------- MODULE Spec2Model ----------------------------
(***************************************************************************)
(* Model of crudegl's model loading and rendering (models.h, meshes.h,     *)
(* vertices.h, textures.h, utils.h).                                       *)
(*                                                                         *)
(* An AssetModel is loaded lazily from a scene returned by the importer,   *)
(* a RawModel is built eagerly from caller data, and every Mesh installs   *)
(* its vertex layout on construction.  The graphics device is modelled by  *)
(* the object names it has handed out, by what is bound on it and by the   *)
(* calls a render or a destruction issues.                                 *)
(*                                                                         *)
(* A path is the sequence of its components (the separators are the gaps   *)
(* between them); a component is a record of its stem and its extension.   *)
(* A shared_ptr<texture_type> is the index of the Texture in 'heap': two   *)
(* holders share one instance exactly when they hold the same index.       *)
(***************************************************************************)
EXTENDS Integers, Sequences, FiniteSets, TLC

VARIABLES
    m_loaded,           \* AssetModel::m_loaded
    m_meshes,           \* AssetModel::m_meshes
    m_loaded_textures,  \* AssetModel::m_loaded_textures (path -> shared Texture)
    heap,               \* every Texture object made by make_shared, by identity
    gl,                 \* graphics device: names in use, attributes per vertex array
    gl_log,             \* device calls issued by the last render or destruction
    last,               \* what the last API call did and how it ended
    importer_calls,     \* how often Assimp::Importer::ReadFile has run
    nodes_visited,      \* how often process_node has run
    calls,              \* API calls made so far
    raw_built,          \* a RawModel has been constructed
    raw_meshes,         \* RawModel::m_meshes
    raw_input,          \* the arguments the RawModel was constructed with
    vertex_layout,      \* TVertex handed to add_each
    attribs,            \* glVertexAttribPointer calls made by add_each
    destroyed,          \* the AssetModel has been destroyed
    moved_from          \* every moved-from Mesh, as it was when destroyed

vars == <<m_loaded, m_meshes, m_loaded_textures, heap, gl, gl_log, last,
          importer_calls, nodes_visited, calls, raw_built, raw_meshes,
          raw_input, vertex_layout, attribs, destroyed, moved_from>>

assetVars == <<m_loaded, m_meshes, m_loaded_textures, importer_calls, nodes_visited>>
rawVars == <<raw_built, raw_meshes, raw_input>>
layoutVars == <<vertex_layout, attribs>>
lifeVars == <<destroyed, moved_from>>

(***************************************************************************)
(* Bounds of the model.                                                    *)
(***************************************************************************)
\* API calls made on one model.
MaxCalls == 3
\* The fallible step of a load at which a user-supplied type may throw.
MaxFault == 4
\* Lengths of the vertex, index and texture path vectors given to a RawModel.
MaxRawVertices == 3
MaxRawIndices == 3
MaxRawTextures == 2
\* Attributes in a vertex layout.
MaxAttributes == 3

(***************************************************************************)
(* utils.h: path utilities                                                 *)
(***************************************************************************)
File(stem, ext) == [stem |-> stem, ext |-> ext]
Dir(name) == [stem |-> name, ext |-> ""]

\* base + PATH_SEPARATOR + path
join(base, path) == base \o path

\* path.substr(0, path.find_last_of(delims)): with no separator find_last_of
\* is npos and the whole path comes back
dirname(path) ==
    IF Len(path) <= 1 THEN path ELSE SubSeq(path, 1, Len(path) - 1)

\* path.substr(path.find_last_of(delims) + 1): npos + 1 = 0, the whole path
basename(path) ==
    IF Len(path) <= 1 THEN path ELSE <<path[Len(path)]>>

\* the text up to the last '.', unless there is none or it is the first
\* character (p > 0 && p != npos)
noextension(filename) ==
    IF Len(filename) = 1 /\ filename[1].ext # "" /\ filename[1].stem # ""
    THEN <<File(filename[1].stem, "")>>
    ELSE filename

(***************************************************************************)
(* The graphics device                                                     *)
(***************************************************************************)
\* glGen*: an unused name, never 0
GenName(used) ==
    CHOOSE n \in 1..(Cardinality(used) + 1) :
        n \notin used /\ \A m \in 1..(n - 1) : m \in used

\* No object exists and nothing is bound: the active texture unit is
\* GL_TEXTURE0, written 0.  texture_binding holds <<unit, texture>> for the
\* units that have a texture bound to GL_TEXTURE_2D.
NoDevice ==
    [vaos |-> {}, buffers |-> {}, textures |-> {}, vao_attribs |-> <<>>,
     vertex_array_binding |-> 0, array_buffer_binding |-> 0,
     active_texture |-> 0, texture_binding |-> {}]

\* the objects of the device, without what is bound
Objects(dev) ==
    [vaos |-> dev.vaos, buffers |-> dev.buffers, textures |-> dev.textures,
     vao_attribs |-> dev.vao_attribs]

\* glBindTexture(GL_TEXTURE_2D, texture) on the active unit; 0 unbinds
BindTexture2D(dev, texture) ==
    [dev EXCEPT !.texture_binding =
        {b \in @ : b[1] # dev.active_texture}
        \cup (IF texture # 0 THEN {<<dev.active_texture, texture>>} ELSE {})]

\* the greatest of a non-empty set of positions
Latest(positions) == CHOOSE k \in positions : \A j \in positions : j <= k

\* the texture unit that is active when call k of 'issued' is made: the unit
\* of the glActiveTexture before it, or the one that was active all along
ActiveAt(dev, issued, k) ==
    LET selects == {j \in 1..(k - 1) : issued[j].op = "glActiveTexture"}
    IN  IF selects = {} THEN dev.active_texture ELSE issued[Latest(selects)].unit

\* the texture bound to 'unit' once 'issued' has been made: the one of the
\* last glBindTexture made while the unit was active, or the one bound before
BoundAfter(dev, issued, unit) ==
    LET binds == {k \in DOMAIN issued :
                     /\ issued[k].op = "glBindTexture"
                     /\ ActiveAt(dev, issued, k) = unit}
    IN  IF binds # {} THEN issued[Latest(binds)].texture
        ELSE IF \E b \in dev.texture_binding : b[1] = unit
        THEN (CHOOSE b \in dev.texture_binding : b[1] = unit)[2]
        ELSE 0

\* the device after the calls of 'issued', made in order: glActiveTexture
\* selects the unit, glBindTexture binds to the selected unit (0 unbinds),
\* glBindVertexArray binds the vertex array; draws and uniforms bind nothing
Issue(dev, issued) ==
    LET arrays == {k \in DOMAIN issued : issued[k].op = "glBindVertexArray"}
        units == {b[1] : b \in dev.texture_binding}
                 \cup {issued[k].unit : k \in {j \in DOMAIN issued :
                                                 issued[j].op = "glActiveTexture"}}
                 \cup {dev.active_texture}
    IN  [dev EXCEPT
            !.active_texture = ActiveAt(dev, issued, Len(issued) + 1),
            !.vertex_array_binding =
                IF arrays = {} THEN @ ELSE issued[Latest(arrays)].array,
            !.texture_binding =
                {b \in {<<u, BoundAfter(dev, issued, u)>> : u \in units} :
                    b[2] # 0}]

(***************************************************************************)
(* textures.h: Texture2D                                                   *)
(***************************************************************************)
\* Texture2D::Texture2D(path): m_handle{0}, the shader name defaults to the
\* file name without its extension.  (m_generate_mipmap is initialised from
\* itself; whether a mipmap is generated is not observed by this model.)
Texture2D(path) ==
    [m_path |-> path,
     m_name |-> noextension(basename(path)),
     m_handle |-> 0,
     loads |-> 0,
     deletes |-> 0]

\* Texture2D::load: glGenTextures, glBindTexture(m_handle) on the active
\* unit, upload, glBindTexture(0)
TextureLoad(tex, dev) ==
    LET h == GenName(dev.textures)
    IN  [tex |-> [tex EXCEPT !.m_handle = h, !.loads = @ + 1],
         gl |-> BindTexture2D([dev EXCEPT !.textures = @ \cup {h}], 0)]

\* Texture2D::~Texture2D: glDeleteTextures(1, &m_handle); a deleted texture
\* is unbound from every unit of the context
TextureDestroy(tex, dev) ==
    [tex |-> [tex EXCEPT !.deletes = @ + 1],
     gl |-> [dev EXCEPT
                !.textures = @ \ {tex.m_handle},
                !.texture_binding = {b \in @ : b[2] # tex.m_handle}]]

(***************************************************************************)
(* vertices.h: attributes, layouts, add_each                               *)
(***************************************************************************)
\* An attribute kind: the enum { size, type, normalized } of the struct and
\* the bytes its data member takes in the vertex.
Attribute(name, size, type, bytes, align) ==
    [name |-> name, size |-> size, type |-> type, normalized |-> FALSE,
     member_bytes |-> bytes, member_align |-> align]

Position == Attribute("Position", 3, "GL_FLOAT", 12, 4)
Normal == Attribute("Normal", 3, "GL_FLOAT", 12, 4)
TextureCoordinate == Attribute("TextureCoordinate", 2, "GL_FLOAT", 8, 4)

DefaultVertex == <<Position, Normal, TextureCoordinate>>

\* sizeof(TAttribute::type): 'type' is an enumerator of an unnamed enum, so
\* this is the size of the enum's underlying type, int, whatever GL type the
\* enumerator names.
SizeofTypeEnumerator == 4

RoundUp(n, a) == ((n + a - 1) \div a) * a

RECURSIVE PlaceBases(_, _, _)
PlaceBases(layout, k, at) ==
    IF k > Len(layout) THEN at
    ELSE PlaceBases(layout, k + 1,
                    RoundUp(at, layout[k].member_align) + layout[k].member_bytes)

MaxAlign(layout) ==
    IF Len(layout) = 0 THEN 1
    ELSE CHOOSE a \in {layout[k].member_align : k \in 1..Len(layout)} :
            \A k \in 1..Len(layout) : layout[k].member_align <= a

\* sizeof(TVertex): the bases in declaration order, each at its alignment,
\* the whole rounded up to the strictest alignment (an empty struct has size 1)
SizeofVertex(layout) ==
    IF Len(layout) = 0 THEN 1
    ELSE RoundUp(PlaceBases(layout, 1, 0), MaxAlign(layout))

\* VertexAttributeInstaller<TAttribute>::operator(): one glVertexAttribPointer
\* and glEnableVertexAttribArray, then offset += data_size
InstallAttribute(attr, stride, offset, layout_position) ==
    [call |-> [index |-> layout_position,
               size |-> attr.size,
               type |-> attr.type,
               normalized |-> attr.normalized,
               stride |-> stride,
               pointer |-> offset,
               enabled |-> TRUE],
     offset |-> offset + attr.size * SizeofTypeEnumerator]

RECURSIVE add_each_from(_, _, _, _, _)
add_each_from(layout, k, stride, offset, done) ==
    IF k > Len(layout) THEN done
    ELSE LET r == InstallAttribute(layout[k], stride, offset, k - 1)
         IN  add_each_from(layout, k + 1, stride, r.offset, Append(done, r.call))

\* add_each<TVertex, TInstaller>(): stride = sizeof(TVertex), offset = 0, then
\* the installer of every attribute in layout-position order
add_each(layout) == add_each_from(layout, 1, SizeofVertex(layout), 0, <<>>)

(***************************************************************************)
(* meshes.h: Mesh                                                          *)
(***************************************************************************)
\* Mesh::Mesh(vertices, indices, textures) with vertex layout 'layout'
Mesh(vertices, indices, textures, layout, dev) ==
    LET vao == GenName(dev.vaos)
        vbo == GenName(dev.buffers)
        indexed == Len(indices) > 0
        ebo == IF indexed THEN GenName(dev.buffers \cup {vbo}) ELSE 0
    IN  [mesh |-> [m_vao |-> vao,
                   m_vbo |-> vbo,
                   m_ebo |-> ebo,
                   m_vertex_count |-> Len(vertices),
                   m_index_count |-> Len(indices),
                   m_textures |-> textures],
         \* the vertex buffer stays bound to GL_ARRAY_BUFFER, the vertex
         \* array is unbound at the end
         gl |-> [dev EXCEPT
                    !.vaos = @ \cup {vao},
                    !.buffers = @ \cup {vbo} \cup (IF indexed THEN {ebo} ELSE {}),
                    !.vao_attribs = @ @@ (vao :> add_each(layout)),
                    !.array_buffer_binding = vbo,
                    !.vertex_array_binding = 0]]

\* Mesh(Mesh&&) = default: member by member; moving a GLuint or a size_t
\* copies it, moving the texture vector leaves the source's empty
MeshMove(source) ==
    [dst |-> source, src |-> [source EXCEPT !.m_textures = <<>>]]

\* the storage of a vector grown by push_back alone is full when its size is
\* a power of two (the capacity doubles, as in libstdc++ and libc++)
StorageFull(size) == \E k \in 0..size : 2 ^ k = size

\* std::vector<mesh_type>::push_back(mesh_type&&): with the storage full the
\* elements are moved to a new block and the moved-from ones destroyed; the
\* argument is moved into the new element and destroyed when the statement
\* ends.  'gone' collects the moved-from Meshes.
push_back(meshes, mesh, gone) ==
    LET relocated == IF StorageFull(Len(meshes))
                     THEN [i \in DOMAIN meshes |-> MeshMove(meshes[i])]
                     ELSE <<>>
        stored == MeshMove(mesh)
    IN  [meshes |-> IF StorageFull(Len(meshes))
                    THEN [i \in DOMAIN meshes |-> relocated[i].dst] \o <<stored.dst>>
                    ELSE Append(meshes, stored.dst),
         gone |-> gone \o [i \in DOMAIN relocated |-> relocated[i].src]
                       \o <<stored.src>>]

\* GL_TEXTURE0 + i is written as the unit number i
\* program.set_uniform(name, v0) is glUniform1i at the location 'name' has
\* in 'program'
RECURSIVE bind_textures_from(_, _, _, _)
bind_textures_from(mesh, store, program, i) ==
    IF i > Len(mesh.m_textures) THEN <<>>
    ELSE LET texture == store[mesh.m_textures[i]]
         IN  <<[op |-> "glActiveTexture", unit |-> i - 1],
               [op |-> "glBindTexture", texture |-> texture.m_handle],
               [op |-> "glUniform1i", program |-> program,
                name |-> texture.m_name, v0 |-> i - 1]>>
             \o bind_textures_from(mesh, store, program, i + 1)

bind_textures(mesh, store, program) == bind_textures_from(mesh, store, program, 1)

\* a draw that ignores the index buffer
draw_mesh_arrays(mesh) ==
    <<[op |-> "glBindVertexArray", array |-> mesh.m_vao],
      [op |-> "glDrawArrays", mode |-> "GL_TRIANGLES",
       count |-> mesh.m_vertex_count],
      [op |-> "glBindVertexArray", array |-> 0]>>

\* Mesh::draw_mesh
draw_mesh(mesh) ==
    <<[op |-> "glBindVertexArray", array |-> mesh.m_vao],
      IF mesh.m_index_count > 0
      THEN [op |-> "glDrawElements", mode |-> "GL_TRIANGLES",
            count |-> mesh.m_index_count]
      ELSE [op |-> "glDrawArrays", mode |-> "GL_TRIANGLES",
            count |-> mesh.m_vertex_count],
      [op |-> "glBindVertexArray", array |-> 0]>>

RECURSIVE unbind_textures_from(_, _)
unbind_textures_from(mesh, i) ==
    IF i > Len(mesh.m_textures) THEN <<>>
    ELSE <<[op |-> "glActiveTexture", unit |-> i - 1],
           [op |-> "glBindTexture", texture |-> 0]>>
         \o unbind_textures_from(mesh, i + 1)

\* an unbind loop that starts one unit late
unbind_textures_late(mesh) == unbind_textures_from(mesh, 2)

unbind_textures(mesh) == unbind_textures_from(mesh, 1)

\* a render that draws before it binds the textures
MeshRender_draw_first(mesh, store, program) ==
    draw_mesh(mesh) \o bind_textures(mesh, store, program) \o unbind_textures(mesh)

\* Mesh::render(program): the device calls it issues, in order
MeshRender(mesh, store, program) ==
    bind_textures(mesh, store, program) \o draw_mesh(mesh) \o unbind_textures(mesh)

\* a loop that renders the meshes from the back of the list
RECURSIVE RenderAll_backwards(_, _, _, _)
RenderAll_backwards(meshes, store, program, i) ==
    IF i > Len(meshes) THEN <<>>
    ELSE RenderAll_backwards(meshes, store, program, i + 1)
         \o MeshRender(meshes[i], store, program)

\* for (const auto& mesh : m_meshes) mesh.render(program): the calls issued
RECURSIVE RenderAll(_, _, _, _)
RenderAll(meshes, store, program, i) ==
    IF i > Len(meshes) THEN <<>>
    ELSE MeshRender(meshes[i], store, program)
         \o RenderAll(meshes, store, program, i + 1)

\* the device after the renders of the first n meshes
RECURSIVE Rendered(_, _, _, _, _)
Rendered(dev, meshes, store, program, n) ==
    IF n = 0 THEN dev
    ELSE Issue(Rendered(dev, meshes, store, program, n - 1),
               MeshRender(meshes[n], store, program))

(***************************************************************************)
(* What the scene importer can return (assimp's aiScene, aiNode, aiMesh,   *)
(* aiMaterial as models.h reads them).  Mesh and material indices are the  *)
(* 0-based indices of the C arrays.                                        *)
(***************************************************************************)
AI_SCENE_FLAGS_INCOMPLETE == 1
AI_SCENE_FLAGS_VALIDATED == 2

\* flag values ReadFile can leave in aiScene::mFlags
SceneFlags == {0,
               AI_SCENE_FLAGS_INCOMPLETE,
               AI_SCENE_FLAGS_VALIDATED,
               AI_SCENE_FLAGS_INCOMPLETE + AI_SCENE_FLAGS_VALIDATED}

\* the bit 'flag' is set in 'flags'
HasFlag(flags, flag) == (flags \div flag) % 2 = 1

Wood == <<File("wood", "png")>>
Metal == <<Dir("tex"), File("metal", "png")>>
Glow == <<File("glow", "jpg")>>

aiMaterial(diffuse, specular) ==
    [aiTextureType_DIFFUSE |-> diffuse, aiTextureType_SPECULAR |-> specular]

aiMesh(num_vertices, faces, material_index) ==
    [mNumVertices |-> num_vertices, mFaces |-> faces,
     mMaterialIndex |-> material_index]

aiNode(meshes, children) ==
    [null |-> FALSE, mMeshes |-> meshes, mChildren |-> children]

NullNode == [null |-> TRUE]
NullScene == [null |-> TRUE]

aiScene(flags, root, meshes, materials) ==
    [null |-> FALSE, mFlags |-> flags, mRootNode |-> root,
     mMeshes |-> meshes, mMaterials |-> materials]

SceneMaterials ==
    <<aiMaterial(<<Wood>>, <<Glow>>),
      aiMaterial(<<Wood>>, <<Metal>>),
      aiMaterial(<<Metal, Wood>>, <<Metal>>)>>

SceneMeshes ==
    <<aiMesh(3, <<<<0, 1, 2>>>>, 1),
      aiMesh(4, <<<<0, 1, 2>>, <<2, 3, 0>>>>, 2),
      aiMesh(5, <<>>, 0),
      aiMesh(6, <<<<2, 1, 0>>, <<3, 4, 5>>, <<5, 4, 0>>>>, 1)>>

\* a root with two meshes and one child with one mesh
TreeRootChild == aiNode(<<0, 1>>, <<aiNode(<<2>>, <<>>)>>)
\* two children, the first with a child of its own
TreeDeep ==
    aiNode(<<>>, <<aiNode(<<0>>, <<aiNode(<<1>>, <<>>)>>), aiNode(<<3>>, <<>>)>>)
\* one scene mesh referenced by three nodes
TreeShared ==
    aiNode(<<0>>, <<aiNode(<<0>>, <<>>), aiNode(<<1>>, <<aiNode(<<0>>, <<>>)>>)>>)
\* a node tree without meshes
TreeEmpty == aiNode(<<>>, <<>>)

SceneTrees == {TreeRootChild, TreeDeep, TreeShared, TreeEmpty}

\* what Assimp::Importer::ReadFile returns for the model's path, call by call
ImporterResults ==
    {NullScene}
    \cup {aiScene(f, NullNode, SceneMeshes, SceneMaterials) : f \in {0, AI_SCENE_FLAGS_VALIDATED}}
    \cup {aiScene(0, t, SceneMeshes, SceneMaterials) : t \in SceneTrees}
    \cup {aiScene(f, TreeRootChild, SceneMeshes, SceneMaterials) : f \in SceneFlags}

(***************************************************************************)
(* models.h: AssetModel                                                    *)
(***************************************************************************)
\* the GLSLProgram objects a caller may hand to render
Programs == {"phong", "flat"}

\* the path the AssetModel was constructed with
m_path == <<Dir("assets"), Dir("ship"), File("ship", "obj")>>
m_parentdir == dirname(m_path)

\* A load in progress: the members it writes, the device, and where in the
\* run of steps that can throw it is.  Such a step is the construction of a
\* mesh's vertices (vertices.emplace_back into TVertexData's constructor) or
\* the creation of a Texture (make_shared<texture_type> and instance->load());
\* what is thrown is std::bad_alloc or an exception of the user-supplied
\* TVertexData / texture_type.  'fault' = k > 0 makes the k-th such step
\* throw; 0 lets them all return.
LoadStart(fault) ==
    [meshes |-> m_meshes, cache |-> m_loaded_textures, heap |-> heap,
     gl |-> gl, visited |-> 0, loads |-> 0, steps |-> 0, fault |-> fault,
     thrown |-> FALSE, textures |-> <<>>, moved_from |-> moved_from]

\* one call that may throw
Fallible(st) ==
    IF st.thrown THEN st
    ELSE [st EXCEPT !.steps = st.steps + 1,
                    !.thrown = (st.fault = st.steps + 1)]

\* a lookup that never finds the path
Found_never(cache, path) == FALSE

\* m_loaded_textures.find(path) != end()
Found(cache, path) == path \in DOMAIN cache

\* the miss branch of load_textures once make_shared and load() returned:
\* push_back into the vector, insert into the cache
keep_texture(path, st) ==
    LET made == TextureLoad(Texture2D(join(m_parentdir, path)), st.gl)
        instance == Len(st.heap) + 1
    IN  IF st.thrown THEN st
        ELSE [st EXCEPT !.heap = Append(@, made.tex),
                        !.gl = made.gl,
                        !.loads = @ + 1,
                        !.textures = Append(@, instance),
                        !.cache = @ @@ (path :> instance)]

\* AssetModel::load_textures: st.textures is the vector being filled
RECURSIVE load_textures_from(_, _, _)
load_textures_from(paths, i, st) ==
    IF st.thrown \/ i > Len(paths) THEN st
    ELSE IF Found(st.cache, paths[i])
    THEN load_textures_from(paths, i + 1,
            [st EXCEPT !.textures = Append(@, st.cache[paths[i]])])
    ELSE load_textures_from(paths, i + 1, keep_texture(paths[i], Fallible(st)))

load_textures(material, type, st) == load_textures_from(material[type], 1, st)

\* raw_mesh->mMaterialIndex > 0
HasMaterial(raw_mesh) == raw_mesh.mMaterialIndex > 0

\* AssetModel::collect_textures
collect_textures(raw_mesh, scene, st) ==
    LET s0 == [st EXCEPT !.textures = <<>>]
    IN  IF st.thrown THEN st
        ELSE IF HasMaterial(raw_mesh)
        THEN LET material == scene.mMaterials[raw_mesh.mMaterialIndex + 1]
             IN  load_textures(material, "aiTextureType_SPECULAR",
                               load_textures(material, "aiTextureType_DIFFUSE", s0))
        ELSE s0

\* AssetModel::collect_vertices: one TVertexData(raw_mesh, i) per vertex
collect_vertices(raw_mesh) == [i \in 1..raw_mesh.mNumVertices |-> i - 1]

\* AssetModel::collect_indices: the faces' indices, face by face
RECURSIVE collect_indices_from(_, _)
collect_indices_from(faces, i) ==
    IF i > Len(faces) THEN <<>>
    ELSE faces[i] \o collect_indices_from(faces, i + 1)

collect_indices(raw_mesh) == collect_indices_from(raw_mesh.mFaces, 1)

\* the end of process_mesh once the textures are collected: the Mesh is
\* constructed and pushed to m_meshes
build_mesh(raw_mesh, st) ==
    LET built == Mesh(collect_vertices(raw_mesh), collect_indices(raw_mesh),
                      st.textures, DefaultVertex, st.gl)
        pushed == push_back(st.meshes, built.mesh, st.moved_from)
    IN  IF st.thrown THEN st
        ELSE [st EXCEPT !.meshes = pushed.meshes,
                        !.moved_from = pushed.gone,
                        !.gl = built.gl]

\* m_meshes.push_back(process_mesh(raw_mesh, scene)); the vertices are
\* constructed first, by TVertexData's constructor
process_mesh(raw_mesh, scene, st) ==
    IF st.thrown THEN st
    ELSE build_mesh(raw_mesh, collect_textures(raw_mesh, scene, Fallible(st)))

RECURSIVE process_node(_, _, _)

\* the first loop of process_node: the node's own meshes
RECURSIVE process_node_meshes(_, _, _, _)
process_node_meshes(node, scene, i, st) ==
    IF st.thrown \/ i > Len(node.mMeshes) THEN st
    ELSE process_node_meshes(node, scene, i + 1,
            process_mesh(scene.mMeshes[node.mMeshes[i] + 1], scene, st))

\* the second loop of process_node: the node's children
RECURSIVE process_node_children(_, _, _, _)
process_node_children(node, scene, i, st) ==
    IF st.thrown \/ i > Len(node.mChildren) THEN st
    ELSE process_node_children(node, scene, i + 1,
            process_node(node.mChildren[i], scene, st))

\* AssetModel::process_node
process_node(node, scene, st) ==
    IF st.thrown THEN st
    ELSE process_node_children(node, scene, 1,
            process_node_meshes(node, scene, 1,
                [st EXCEPT !.visited = @ + 1]))

\* the test of load_model that throws model_error(m_path, "Cannot load model.")
CannotLoad(scene) ==
    \/ scene.null
    \/ scene.mFlags = AI_SCENE_FLAGS_INCOMPLETE
    \/ scene.mRootNode.null


\* what 'last' records of one API call
Outcome(op, status, what, scene, imported, visited, loads) ==
    [op |-> op, status |-> status, what |-> what, path |-> m_path,
     scene |-> scene, imported |-> imported, visited |-> visited,
     loads |-> loads]

NoCall == Outcome("none", "ok", "", NullScene, FALSE, 0, 0)

\* a load that sets m_loaded before the traversal has returned
load_model_flag_first(scene, fault) ==
    /\ importer_calls' = importer_calls + 1
    /\ IF CannotLoad(scene)
       THEN /\ last' = Outcome("load", "model_error", "Cannot load model.",
                               scene, TRUE, 0, 0)
            /\ UNCHANGED <<m_loaded, m_meshes, m_loaded_textures, heap, gl,
                           nodes_visited, moved_from>>
       ELSE \E st \in {process_node(scene.mRootNode, scene, LoadStart(fault))} :
                /\ m_meshes' = st.meshes
                /\ m_loaded_textures' = st.cache
                /\ heap' = st.heap
                /\ gl' = st.gl
                /\ moved_from' = st.moved_from
                /\ nodes_visited' = nodes_visited + st.visited
                /\ m_loaded' = TRUE
                /\ last' = Outcome("load",
                                   IF st.thrown THEN "exception" ELSE "ok",
                                   "", scene, TRUE, st.visited, st.loads)

\* AssetModel::load_model with the importer returning 'scene', and the
\* m_loaded = true of load() that follows its return
load_model(scene, fault) ==
    /\ importer_calls' = importer_calls + 1
    /\ IF CannotLoad(scene)
       THEN /\ last' = Outcome("load", "model_error", "Cannot load model.",
                               scene, TRUE, 0, 0)
            /\ UNCHANGED <<m_loaded, m_meshes, m_loaded_textures, heap, gl,
                           nodes_visited, moved_from>>
       ELSE \E st \in {process_node(scene.mRootNode, scene, LoadStart(fault))} :
                /\ m_meshes' = st.meshes
                /\ m_loaded_textures' = st.cache
                /\ heap' = st.heap
                /\ gl' = st.gl
                /\ moved_from' = st.moved_from
                /\ nodes_visited' = nodes_visited + st.visited
                \* m_loaded = true is reached only when load_model returns
                /\ m_loaded' = ~st.thrown
                /\ last' = Outcome("load",
                                   IF st.thrown THEN "exception" ELSE "ok",
                                   "", scene, TRUE, st.visited, st.loads)

\* a load() without the m_loaded test
Load_unguarded ==
    /\ ~destroyed
    /\ calls < MaxCalls
    /\ calls' = calls + 1
    /\ \E scene \in ImporterResults, fault \in 0..MaxFault :
            load_model(scene, fault)
    /\ UNCHANGED <<gl_log, rawVars, layoutVars, destroyed>>

\* AssetModel::load
Load ==
    /\ ~destroyed
    /\ calls < MaxCalls
    /\ calls' = calls + 1
    /\ IF ~m_loaded
       THEN \E scene \in ImporterResults, fault \in 0..MaxFault :
                load_model(scene, fault)
       ELSE /\ last' = Outcome("load", "ok", "", NullScene, FALSE, 0, 0)
            /\ UNCHANGED <<assetVars, heap, gl, moved_from>>
    /\ UNCHANGED <<gl_log, rawVars, layoutVars, destroyed>>

\* a render() that skips the m_loaded test and draws what the mesh list holds
Render_unguarded ==
    /\ ~destroyed
    /\ calls < MaxCalls
    /\ calls' = calls + 1
    /\ last' = Outcome("render", "ok", "", NullScene, FALSE, 0, 0)
    /\ \E program \in Programs :
            /\ gl_log' = RenderAll(m_meshes, heap, program, 1)
            /\ gl' = Rendered(gl, m_meshes, heap, program, Len(m_meshes))
    /\ UNCHANGED <<assetVars, heap, rawVars, layoutVars, lifeVars>>

\* AssetModel::render
Render ==
    /\ ~destroyed
    /\ calls < MaxCalls
    /\ calls' = calls + 1
    /\ IF ~m_loaded
       THEN /\ last' = Outcome("render", "model_error",
                               "Model not loaded before rendering.",
                               NullScene, FALSE, 0, 0)
            /\ gl_log' = <<>>
            /\ gl' = gl
       ELSE \E program \in Programs :
                /\ last' = Outcome("render", "ok", "", NullScene, FALSE, 0, 0)
                /\ gl_log' = RenderAll(m_meshes, heap, program, 1)
                /\ gl' = Rendered(gl, m_meshes, heap, program, Len(m_meshes))
    /\ UNCHANGED <<assetVars, heap, rawVars, layoutVars, lifeVars>>

\* the texture slots <<mesh, slot>> of a mesh vector
shares_of(meshes) ==
    UNION {{<<i, j>> : j \in DOMAIN meshes[i].m_textures} : i \in DOMAIN meshes}

\* shared_ptr::use_count of every Texture: the cache entries and the mesh
\* texture slots that hold it
use_counts(cache, meshes, store) ==
    [a \in DOMAIN store |->
        Cardinality({k \in DOMAIN cache : cache[k] = a})
        + Cardinality({s \in shares_of(meshes) :
                          meshes[s[1]].m_textures[s[2]] = a})]

\* a destruction in progress
DestroyStart ==
    [use_count |-> use_counts(m_loaded_textures, m_meshes, heap),
     heap |-> heap, gl |-> gl, log |-> <<>>]

\* a holder that destroys the Texture whoever else holds it
release_unshared(instance, st) ==
    LET left == st.use_count[instance] - 1
        gone == TextureDestroy(st.heap[instance], st.gl)
    IN  [st EXCEPT !.use_count[instance] = left,
                   !.heap[instance] = gone.tex,
                   !.gl = gone.gl,
                   !.log = Append(@, [op |-> "glDeleteTextures",
                                      texture |-> gone.tex.m_handle,
                                      use_count |-> left])]

\* ~shared_ptr<texture_type>: one holder lets go; the last one runs
\* ~Texture2D
release(instance, st) ==
    LET left == st.use_count[instance] - 1
        gone == TextureDestroy(st.heap[instance], st.gl)
    IN  IF left > 0
        THEN [st EXCEPT !.use_count[instance] = left]
        ELSE [st EXCEPT !.use_count[instance] = left,
                        !.heap[instance] = gone.tex,
                        !.gl = gone.gl,
                        !.log = Append(@, [op |-> "glDeleteTextures",
                                           texture |-> gone.tex.m_handle,
                                           use_count |-> left])]

\* ~unordered_map: every entry lets go of its Texture (in the container's
\* order, which no caller controls)
RECURSIVE release_cache(_, _, _)
release_cache(cache, keys, st) ==
    IF keys = {} THEN st
    ELSE LET k == CHOOSE k \in keys : TRUE
         IN  release_cache(cache, keys \ {k}, release(cache[k], st))

\* ~vector<shared_ptr<texture_type>>: the elements from the front
RECURSIVE release_textures(_, _, _)
release_textures(textures, i, st) ==
    IF i > Len(textures) THEN st
    ELSE release_textures(textures, i + 1, release(textures[i], st))

\* Mesh::~Mesh() = default: the members are destroyed, which releases the
\* shares of m_textures; m_vao, m_vbo and m_ebo are plain GLuint and no
\* device call is made for them
MeshDestroy(mesh, st) == release_textures(mesh.m_textures, 1, st)

\* ~vector<mesh_type>: the meshes from the front
RECURSIVE destroy_meshes(_, _, _)
destroy_meshes(meshes, i, st) ==
    IF i > Len(meshes) THEN st
    ELSE destroy_meshes(meshes, i + 1, MeshDestroy(meshes[i], st))

\* AssetModel::~AssetModel (implicit): the members in reverse order of
\* declaration, m_loaded_textures before m_meshes.  m_meshes and
\* m_loaded_textures keep the values they were destroyed with.
Destroy ==
    /\ ~destroyed
    /\ calls < MaxCalls
    /\ calls' = calls + 1
    /\ \E st \in {destroy_meshes(m_meshes, 1,
                        release_cache(m_loaded_textures,
                                      DOMAIN m_loaded_textures,
                                      DestroyStart))} :
            /\ heap' = st.heap
            /\ gl' = st.gl
            /\ gl_log' = st.log
    /\ destroyed' = TRUE
    /\ last' = Outcome("destroy", "ok", "", NullScene, FALSE, 0, 0)
    /\ UNCHANGED <<assetVars, moved_from, rawVars, layoutVars>>

(***************************************************************************)
(* models.h: RawModel                                                      *)
(***************************************************************************)
RawInput(vertices, indices, texture_paths) ==
    [vertices |-> vertices, indices |-> indices, texture_paths |-> texture_paths]

NoRawInput == RawInput(<<>>, <<>>, <<>>)

\* paths a caller may hand to a RawModel
RawTexturePaths == {<<Dir("img"), File("wall", "jpg")>>, <<File("floor", "png")>>}

SeqsUpTo(S, n) == UNION {[1..k -> S] : k \in 0..n}

\* the constructor's loop over texture_paths: make_shared, load, push_back
RECURSIVE raw_textures_from(_, _, _)
raw_textures_from(texture_paths, i, st) ==
    IF i > Len(texture_paths) THEN st
    ELSE LET made == TextureLoad(Texture2D(texture_paths[i]), st.gl)
             instance == Len(st.heap) + 1
         IN  raw_textures_from(texture_paths, i + 1,
                [st EXCEPT !.heap = Append(@, made.tex),
                           !.gl = made.gl,
                           !.textures = Append(@, instance)])

\* a constructor loop that reuses the Texture of an earlier equal path
RECURSIVE raw_textures_dedup_from(_, _, _)
raw_textures_dedup_from(texture_paths, i, st) ==
    IF i > Len(texture_paths) THEN st
    ELSE IF \E j \in 1..(i - 1) : texture_paths[j] = texture_paths[i]
    THEN LET j == CHOOSE j \in 1..(i - 1) : texture_paths[j] = texture_paths[i]
         IN  raw_textures_dedup_from(texture_paths, i + 1,
                [st EXCEPT !.textures = Append(@, st.textures[j])])
    ELSE LET made == TextureLoad(Texture2D(texture_paths[i]), st.gl)
             instance == Len(st.heap) + 1
         IN  raw_textures_dedup_from(texture_paths, i + 1,
                [st EXCEPT !.heap = Append(@, made.tex),
                           !.gl = made.gl,
                           !.textures = Append(@, instance)])

raw_textures_dedup(texture_paths, st) ==
    raw_textures_dedup_from(texture_paths, 1, st)

raw_textures(texture_paths, st) == raw_textures_from(texture_paths, 1, st)

\* RawModel::RawModel(vertices, indices, texture_paths)
RawConstruct ==
    /\ ~raw_built
    /\ calls < MaxCalls
    /\ \E nv \in 0..MaxRawVertices, ni \in 0..MaxRawIndices,
          texture_paths \in SeqsUpTo(RawTexturePaths, MaxRawTextures) :
          LET vertices == [i \in 1..nv |-> 0]
              indices == [i \in 1..ni |-> 0]
              st == raw_textures(texture_paths,
                                 [heap |-> heap, gl |-> gl, textures |-> <<>>])
              built == Mesh(vertices, indices, st.textures, DefaultVertex, st.gl)
          IN  /\ raw_input' = RawInput(vertices, indices, texture_paths)
              /\ raw_meshes' = Append(raw_meshes, built.mesh)
              /\ heap' = st.heap
              /\ gl' = built.gl
              /\ last' = Outcome("construct", "ok", "", NullScene, FALSE, 0,
                                 Len(texture_paths))
    /\ raw_built' = TRUE
    /\ calls' = calls + 1
    /\ UNCHANGED <<assetVars, gl_log, layoutVars, lifeVars>>

\* RawModel::load: an empty body
RawLoad ==
    /\ raw_built
    /\ calls < MaxCalls
    /\ calls' = calls + 1
    /\ last' = Outcome("load", "ok", "", NullScene, FALSE, 0, 0)
    /\ UNCHANGED <<assetVars, rawVars, heap, gl, gl_log, layoutVars, lifeVars>>

\* RawModel::render
RawRender ==
    /\ raw_built
    /\ calls < MaxCalls
    /\ calls' = calls + 1
    /\ last' = Outcome("render", "ok", "", NullScene, FALSE, 0, 0)
    /\ \E program \in Programs :
            /\ gl_log' = RenderAll(raw_meshes, heap, program, 1)
            /\ gl' = Rendered(gl, raw_meshes, heap, program, Len(raw_meshes))
    /\ UNCHANGED <<assetVars, rawVars, heap, layoutVars, lifeVars>>

(***************************************************************************)
(* Vertex layouts handed to add_each                                       *)
(***************************************************************************)
\* attribute kinds a user may define by the conventions of vertices.h
Color == Attribute("Color", 4, "GL_UNSIGNED_BYTE", 4, 1)
Weights == Attribute("Weights", 2, "GL_DOUBLE", 16, 8)

AttributeKinds == {Position, Normal, TextureCoordinate, Color, Weights}

VertexLayouts == SeqsUpTo(AttributeKinds, MaxAttributes) \ {<<>>}

\* add_each<vertex_layout, VertexAttributeInstaller>() on a bound vertex array
AddEach ==
    /\ calls = 0
    /\ calls' = 1
    /\ attribs' = add_each(vertex_layout)
    /\ last' = Outcome("add_each", "ok", "", NullScene, FALSE, 0, 0)
    /\ UNCHANGED <<assetVars, rawVars, heap, gl, gl_log, vertex_layout, lifeVars>>

Init ==
    /\ m_loaded = FALSE
    /\ m_meshes = <<>>
    /\ m_loaded_textures = <<>>
    /\ heap = <<>>
    /\ gl = NoDevice
    /\ gl_log = <<>>
    /\ last = NoCall
    /\ importer_calls = 0
    /\ nodes_visited = 0
    /\ calls = 0
    /\ raw_built = FALSE
    /\ raw_meshes = <<>>
    /\ raw_input = NoRawInput
    /\ vertex_layout = DefaultVertex
    /\ attribs = <<>>
    /\ destroyed = FALSE
    /\ moved_from = <<>>

Next == Load \/ Render \/ Destroy

\* an AssetModel under any sequence of load() and render() calls, up to its
\* destruction
Spec == Init /\ [][Next]_vars


NextRaw == RawConstruct \/ RawLoad \/ RawRender

\* a RawModel: construction, then any sequence of load() and render() calls
SpecRaw == Init /\ [][NextRaw]_vars

InitLayout ==
    /\ m_loaded = FALSE
    /\ m_meshes = <<>>
    /\ m_loaded_textures = <<>>
    /\ heap = <<>>
    /\ gl = NoDevice
    /\ gl_log = <<>>
    /\ last = NoCall
    /\ importer_calls = 0
    /\ nodes_visited = 0
    /\ calls = 0
    /\ raw_built = FALSE
    /\ raw_meshes = <<>>
    /\ raw_input = NoRawInput
    /\ vertex_layout \in VertexLayouts
    /\ attribs = <<>>
    /\ destroyed = FALSE
    /\ moved_from = <<>>

NextLayout == AddEach

\* add_each over every vertex layout
SpecLayout == InitLayout /\ [][NextLayout]_vars


(***************************************************************************)
(* Claims                                                                  *)
(***************************************************************************)
\* the texture slots <<mesh, slot>> of the meshes of 'meshes'
TextureSlots(meshes) ==
    UNION {{<<i, j>> : j \in DOMAIN meshes[i].m_textures} : i \in DOMAIN meshes}

\* What holds of the cache whatever the scene: no two Texture instances have
\* the same path, each instance is the cache's entry for its path and was
\* loaded once, and every texture slot of every mesh holds a cache entry.
CacheHoldsOneInstancePerPath ==
    /\ \A a, b \in DOMAIN heap : heap[a].m_path = heap[b].m_path => a = b
    /\ \A a \in DOMAIN heap :
          /\ heap[a].loads = 1
          /\ \E k \in DOMAIN m_loaded_textures :
                m_loaded_textures[k] = a /\ heap[a].m_path = join(m_parentdir, k)
    /\ \A k \in DOMAIN m_loaded_textures : m_loaded_textures[k] \in DOMAIN heap
    /\ \A s \in TextureSlots(m_meshes) :
          LET held == m_meshes[s[1]].m_textures[s[2]]
          IN  \E k \in DOMAIN m_loaded_textures : m_loaded_textures[k] = held

\* C2: a render() on a model that is not loaded ends in the "not loaded"
\* model_error, issues no device call (no texture bind, no draw), runs no
\* importer and no traversal and leaves the model and the device as they were.
C2_RenderBeforeLoad ==
    [][(~m_loaded /\ last'.op = "render")
          => /\ last'.status = "model_error"
             /\ last'.what = "Model not loaded before rendering."
             /\ gl_log' = <<>>
             /\ UNCHANGED <<assetVars, heap, gl>>]_vars

\* render() was refused on a model whose load had failed part-way, with
\* meshes already in the list
C2_Witness ==
    /\ last.op = "render"
    /\ last.status = "model_error"
    /\ ~m_loaded
    /\ importer_calls > 0
    /\ Len(m_meshes) > 0

\* C3: every load() on a model that is already loaded is a no-op: no
\* importer run, no node visited, no texture loaded, mesh list, cache,
\* textures and device unchanged.
C3_LoadIdempotent ==
    [][(m_loaded /\ last'.op = "load")
          => /\ last'.status = "ok"
             /\ ~last'.imported
             /\ last'.visited = 0
             /\ last'.loads = 0
             /\ UNCHANGED <<assetVars, heap, gl>>]_vars

\* a second load() on a loaded model that has meshes and cached textures
C3_Witness ==
    /\ m_loaded
    /\ last.op = "load"
    /\ ~last.imported
    /\ importer_calls = 1
    /\ Len(m_meshes) > 1
    /\ DOMAIN m_loaded_textures # {}


\* the mesh references of a node tree in pre-order: a node's own meshes,
\* then the subtree of each child in child order
RECURSIVE PreOrder(_)
RECURSIVE PreOrderOfChildren(_, _)
PreOrderOfChildren(children, i) ==
    IF i > Len(children) THEN <<>>
    ELSE PreOrder(children[i]) \o PreOrderOfChildren(children, i + 1)

PreOrder(node) == node.mMeshes \o PreOrderOfChildren(node.mChildren, 1)

\* the number of indices in the faces of a scene mesh
RECURSIVE FaceIndexCount(_, _)
FaceIndexCount(faces, i) ==
    IF i > Len(faces) THEN 0 ELSE Len(faces[i]) + FaceIndexCount(faces, i + 1)

\* the scene mesh a Mesh was built from (the scene meshes of the model
\* differ in their vertex counts)
RawMeshOf(mesh) ==
    CHOOSE r \in {SceneMeshes[i] : i \in DOMAIN SceneMeshes} :
        r.mNumVertices = mesh.m_vertex_count

\* the texture paths a material names, diffuse slots before specular slots
NamedPaths(material) ==
    material["aiTextureType_DIFFUSE"] \o material["aiTextureType_SPECULAR"]

\* C1 (as claimed): every mesh holds, for every path its material names,
\* the one Texture instance of that path, which the cache holds too and
\* which was loaded exactly once; no two instances have the same path.
C1_SharedTexturePerPath ==
    /\ \A a, b \in DOMAIN heap : heap[a].m_path = heap[b].m_path => a = b
    /\ \A a \in DOMAIN heap : heap[a].loads = 1
    /\ \A i \in DOMAIN m_meshes :
          LET named == NamedPaths(SceneMaterials[RawMeshOf(m_meshes[i]).mMaterialIndex + 1])
          IN  \A n \in DOMAIN named :
                 \E j \in DOMAIN m_meshes[i].m_textures :
                    /\ named[n] \in DOMAIN m_loaded_textures
                    /\ m_meshes[i].m_textures[j] = m_loaded_textures[named[n]]
                    /\ heap[m_meshes[i].m_textures[j]].m_path = join(m_parentdir, named[n])

\* C4 (as claimed): after a successful load() the mesh list is the
\* pre-order flattening of the imported node tree.
C4_MeshListIsPreOrder ==
    (last.op = "load" /\ last.imported /\ last.status = "ok")
        => LET order == PreOrder(last.scene.mRootNode)
           IN  /\ Len(m_meshes) = Len(order)
               /\ \A i \in DOMAIN order :
                     LET raw_mesh == last.scene.mMeshes[order[i] + 1]
                     IN  /\ m_meshes[i].m_vertex_count = raw_mesh.mNumVertices
                         /\ m_meshes[i].m_index_count = FaceIndexCount(raw_mesh.mFaces, 1)

\* C5 (as claimed): while the loaded flag is not set, the mesh list and the
\* texture cache are empty.
C5_UnloadedIsEmpty ==
    ~m_loaded => (m_meshes = <<>> /\ DOMAIN m_loaded_textures = {})

\* the importer's result is one the claim says load() must refuse
Malformed(scene) ==
    \/ scene.null
    \/ HasFlag(scene.mFlags, AI_SCENE_FLAGS_INCOMPLETE)
    \/ scene.mRootNode.null

\* C6 (as claimed): a first load() whose importer returns no scene, a scene
\* with the incomplete flag set (alone or with other flags), or a scene
\* without root node fails with a model_error carrying the model's path, and
\* visits no node.
C6_MalformedSceneRefused ==
    (last.op = "load" /\ last.imported /\ Malformed(last.scene))
        => /\ last.status = "model_error"
           /\ last.path = m_path
           /\ last.visited = 0
           /\ ~m_loaded

\* C7 (as claimed): Loaded is terminal, and so is Failed: after a load()
\* that failed, no call makes the model Loaded or runs the importer or the
\* traversal again.
C7_LoadedAndFailedTerminal ==
    [][/\ m_loaded => (m_loaded' /\ importer_calls' = importer_calls
                                 /\ nodes_visited' = nodes_visited)
       /\ (last.op = "load" /\ last.status # "ok")
             => (~m_loaded' /\ importer_calls' = importer_calls
                            /\ nodes_visited' = nodes_visited)]_vars

\* C7 (amended): Loaded is terminal: once loaded, the model stays loaded and
\* never runs the importer or the traversal again.  The flag is set only by
\* a load() that ran the importer and the whole traversal without error; a
\* load() that fails leaves it unset.  Failed is not terminal: every load()
\* on a model that is not loaded runs the importer again.
C7_LoadedTerminalFailedRetried ==
    [][/\ m_loaded => (m_loaded' /\ importer_calls' = importer_calls
                                 /\ nodes_visited' = nodes_visited)
       /\ (~m_loaded /\ m_loaded')
             => (last'.op = "load" /\ last'.status = "ok" /\ last'.imported)
       /\ (last'.op = "load" /\ last'.status # "ok") => ~m_loaded'
       /\ (~m_loaded /\ last'.op = "load")
             => importer_calls' = importer_calls + 1]_vars

\* a model that became Loaded by its third load(), after two that failed
C7_Witness ==
    /\ m_loaded
    /\ importer_calls = 3
    /\ last.op = "load"


IsDraw(c) == c.op \in {"glDrawElements", "glDrawArrays"}

\* C8: a Mesh::render issues exactly one draw call, of triangles: built with
\* a non-empty index array it is an indexed draw whose count is the length
\* of the index array, built with an empty one it is a non-indexed draw
\* whose count is the length of the vertex array.  (A RawModel's render is
\* the render of its one Mesh, built from the constructor's arrays.)
C8_OneDrawOfRightCount ==
    last.op = "render"
        => LET draws == SelectSeq(gl_log, IsDraw)
           IN  /\ Len(draws) = 1
               /\ draws[1].mode = "GL_TRIANGLES"
               /\ IF Len(raw_input.indices) > 0
                  THEN /\ draws[1].op = "glDrawElements"
                       /\ draws[1].count = Len(raw_input.indices)
                  ELSE /\ draws[1].op = "glDrawArrays"
                       /\ draws[1].count = Len(raw_input.vertices)

\* a Mesh with more indices than vertices has been rendered
C8_Witness ==
    /\ last.op = "render"
    /\ Len(raw_input.indices) > Len(raw_input.vertices)
    /\ Len(raw_input.vertices) > 0
    /\ \E k \in DOMAIN gl_log : gl_log[k].op = "glDrawElements"

\* the bytes of one component of a GL type
ComponentBytes(type) ==
    CASE type = "GL_FLOAT" -> 4
      [] type = "GL_UNSIGNED_BYTE" -> 1
      [] type = "GL_DOUBLE" -> 8

\* size(A) = component_count x component_byte_size
AttributeSize(attr) == attr.size * ComponentBytes(attr.type)

\* the sum of size(A_i) over the first n attributes of a layout
RECURSIVE SizeSum(_, _)
SizeSum(layout, n) ==
    IF n = 0 THEN 0 ELSE SizeSum(layout, n - 1) + AttributeSize(layout[n])

\* C9 (as claimed): add_each registers the attribute at layout position k
\* with the offset sum of size(A_i) over i < k, and every attribute with the
\* stride sum of size(A_i) over the whole layout.
C9_TightlyPacked ==
    calls > 0
        => /\ Len(attribs) = Len(vertex_layout)
           /\ \A k \in DOMAIN attribs :
                 /\ attribs[k].index = k - 1
                 /\ attribs[k].pointer = SizeSum(vertex_layout, k - 1)
                 /\ attribs[k].stride = SizeSum(vertex_layout, Len(vertex_layout))

\* the RawModel holds one Mesh of the constructor's vertex and index counts
\* whose texture list has one Texture per given path, in path order, each a
\* separate instance that was loaded once
RawModelShape ==
    raw_built
        => /\ Len(raw_meshes) = 1
           /\ raw_meshes[1].m_vertex_count = Len(raw_input.vertices)
           /\ raw_meshes[1].m_index_count = Len(raw_input.indices)
           /\ Len(raw_meshes[1].m_textures) = Len(raw_input.texture_paths)
           /\ Len(heap) = Len(raw_input.texture_paths)
           /\ \A j \in DOMAIN raw_input.texture_paths :
                 /\ raw_meshes[1].m_textures[j] \in DOMAIN heap
                 /\ heap[raw_meshes[1].m_textures[j]].m_path = raw_input.texture_paths[j]
                 /\ heap[raw_meshes[1].m_textures[j]].loads = 1
           /\ \A j, k \in DOMAIN raw_meshes[1].m_textures :
                 j # k => raw_meshes[1].m_textures[j] # raw_meshes[1].m_textures[k]

\* C10: a RawModel built from V vertices, I indices and N texture paths
\* holds exactly one Mesh with vertex_count V, index_count I and N textures
\* in path order, each freshly allocated and loaded once, equal paths
\* included; load() changes nothing; render() succeeds whenever it is
\* called on the constructed model.
C10_RawModel ==
    [][/\ RawModelShape'
       /\ (raw_built /\ last'.op = "load")
             => (last'.status = "ok" /\ UNCHANGED <<rawVars, heap, gl, gl_log>>)
       /\ last'.op = "render"
             => (/\ last'.status = "ok"
                 /\ \E program \in Programs :
                        gl_log' = MeshRender(raw_meshes[1], heap, program)
                 /\ Objects(gl') = Objects(gl)
                 /\ UNCHANGED <<rawVars, heap>>)]_vars

\* a RawModel given the same path twice, rendered right after construction
C10_Witness ==
    /\ raw_built
    /\ calls = 2
    /\ last.op = "render"
    /\ Len(raw_input.texture_paths) = 2
    /\ raw_input.texture_paths[1] = raw_input.texture_paths[2]
    /\ raw_meshes[1].m_textures[1] # raw_meshes[1].m_textures[2]
    /\ Len(raw_input.vertices) > 0
    /\ Len(raw_input.indices) > 0

\* what is bound and selected on the device
BindingState(dev) ==
    [vertex_array_binding |-> dev.vertex_array_binding,
     array_buffer_binding |-> dev.array_buffer_binding,
     active_texture |-> dev.active_texture,
     texture_binding |-> dev.texture_binding]

\* C11 (as claimed): a Mesh::render leaves the binding state of the device
\* as it found it.
C11_BindingStateRestored ==
    [][last'.op = "render" => BindingState(gl') = BindingState(gl)]_vars

\* C11 (amended): when a Mesh::render of a mesh with n textures returns, no
\* vertex array is bound and no texture is bound to any of the units
\* 0..n-1; the state before the call is not restored: for n > 0 the active
\* texture unit is left at n-1 (for n = 0 it is untouched).  The array
\* buffer binding and the objects of the device are untouched.
C11_UnboundOnExit ==
    [][last'.op = "render"
          => LET n == Len(raw_meshes[1].m_textures)
             IN  /\ gl'.vertex_array_binding = 0
                 /\ \A b \in gl'.texture_binding : b[1] \notin 0..(n - 1)
                 /\ gl'.active_texture =
                        IF n > 0 THEN n - 1 ELSE gl.active_texture
                 /\ gl'.array_buffer_binding = gl.array_buffer_binding
                 /\ Objects(gl') = Objects(gl)]_vars

\* a mesh with two textures has been rendered: both were bound, to units 0
\* and 1, and unit 1 is still the active one
C11_Witness ==
    /\ last.op = "render"
    /\ Len(raw_meshes[1].m_textures) = 2
    /\ \E j, k \in DOMAIN gl_log :
          /\ j < k
          /\ gl_log[j] = [op |-> "glActiveTexture", unit |-> 1]
          /\ gl_log[k].op = "glBindTexture"
          /\ gl_log[k].texture # 0
    /\ gl.active_texture = 1
    /\ gl.texture_binding = {}

\* C16: the device calls of a Mesh::render are, in this order: for every
\* i from 0 to textures.size()-1, ascending, unit i is selected, textures[i]
\* is bound to it and the sampler uniform named by the shader name of
\* textures[i] is set to i; then the vertex array is bound, exactly one
\* triangle draw is made and the vertex array unbound; then the units
\* 0..textures.size()-1 are unbound, ascending.  There is no other call.
C16_RenderOrder ==
    last.op = "render"
        => LET textures == raw_meshes[1].m_textures
               n == Len(textures)
               drawn == 3 * n + 3
           IN  /\ Len(gl_log) = drawn + 2 * n
               /\ \A i \in 1..n :
                     /\ gl_log[3 * i - 2] = [op |-> "glActiveTexture", unit |-> i - 1]
                     /\ gl_log[3 * i - 1] =
                            [op |-> "glBindTexture",
                             texture |-> heap[textures[i]].m_handle]
                     /\ heap[textures[i]].m_handle # 0
                     /\ heap[textures[i]].m_path = raw_input.texture_paths[i]
                     /\ gl_log[3 * i].op = "glUniform1i"
                     /\ gl_log[3 * i].name = heap[textures[i]].m_name
                     /\ gl_log[3 * i].v0 = i - 1
               /\ gl_log[drawn - 2] =
                      [op |-> "glBindVertexArray", array |-> raw_meshes[1].m_vao]
               /\ IsDraw(gl_log[drawn - 1])
               /\ gl_log[drawn - 1].mode = "GL_TRIANGLES"
               /\ gl_log[drawn] = [op |-> "glBindVertexArray", array |-> 0]
               /\ Len(SelectSeq(gl_log, IsDraw)) = 1
               /\ \A i \in 1..n :
                     /\ gl_log[drawn + 2 * i - 1] =
                            [op |-> "glActiveTexture", unit |-> i - 1]
                     /\ gl_log[drawn + 2 * i] = [op |-> "glBindTexture", texture |-> 0]

\* a mesh with two different textures and an index buffer has been rendered
C16_Witness ==
    /\ last.op = "render"
    /\ Len(raw_meshes[1].m_textures) = 2
    /\ raw_input.texture_paths[1] # raw_input.texture_paths[2]
    /\ raw_meshes[1].m_index_count > 0
    /\ Len(gl_log) > 0

\* C12 (as claimed): once the model and with it its meshes are destroyed,
\* no vertex array, vertex buffer or index buffer that one of its meshes
\* created is still allocated on the device.
C12_MeshBuffersReleased ==
    destroyed
        => \A i \in DOMAIN m_meshes :
              /\ m_meshes[i].m_vao \notin gl.vaos
              /\ m_meshes[i].m_vbo \notin gl.buffers
              /\ m_meshes[i].m_ebo \notin gl.buffers

\* C13 (as claimed): a moved-from Mesh holds no handle: its vertex array,
\* vertex buffer and index buffer handles are zero, so that no device object
\* is held by two Meshes at once.
C13_MovedFromHoldsNothing ==
    \A k \in DOMAIN moved_from :
        /\ moved_from[k].m_vao = 0
        /\ moved_from[k].m_vbo = 0
        /\ moved_from[k].m_ebo = 0

\* C14: the device texture of a Texture is deleted exactly once, by the
\* holder that releases it last, and not before.  While the model lives
\* every Texture is held by the cache or a mesh, has never been deleted and
\* is allocated; the destruction of the model deletes every one of them
\* once, each at a moment when no cache entry and no mesh holds it any more.
C14_FreedOnceByLastHolder ==
    /\ \A a, b \in DOMAIN heap :
          a # b => heap[a].m_handle # heap[b].m_handle
    /\ ~destroyed
          => \A a \in DOMAIN heap :
                /\ heap[a].deletes = 0
                /\ heap[a].m_handle \in gl.textures
                /\ use_counts(m_loaded_textures, m_meshes, heap)[a] > 0
    /\ destroyed
          => /\ \A a \in DOMAIN heap :
                   /\ heap[a].deletes = 1
                   /\ heap[a].m_handle \notin gl.textures
                   /\ \E k \in DOMAIN gl_log :
                         gl_log[k].texture = heap[a].m_handle
             /\ \A k \in DOMAIN gl_log :
                   /\ gl_log[k].op = "glDeleteTextures"
                   /\ gl_log[k].use_count = 0
             /\ Len(gl_log) = Len(heap)

\* a model was destroyed that had a Texture held by the cache and by the
\* texture lists of several meshes
C14_Witness ==
    /\ destroyed
    /\ \E a \in DOMAIN heap :
          /\ heap[a].deletes = 1
          /\ \E i, j \in DOMAIN m_meshes :
                /\ i # j
                /\ \E s \in DOMAIN m_meshes[i].m_textures :
                      m_meshes[i].m_textures[s] = a
                /\ \E s \in DOMAIN m_meshes[j].m_textures :
                      m_meshes[j].m_textures[s] = a
          /\ \E k \in DOMAIN m_loaded_textures : m_loaded_textures[k] = a

\* C15 (as claimed): the texture list of every Mesh is the Textures of all
\* diffuse paths of the material its sub-mesh references, in slot order,
\* followed by those of all its specular paths, in slot order; this for
\* every material index, the first included.
C15_TexturesOfMaterial ==
    \A i \in DOMAIN m_meshes :
        LET named == NamedPaths(SceneMaterials[RawMeshOf(m_meshes[i]).mMaterialIndex + 1])
        IN  /\ Len(m_meshes[i].m_textures) = Len(named)
            /\ \A n \in DOMAIN named :
                  heap[m_meshes[i].m_textures[n]].m_path = join(m_parentdir, named[n])

IsArrayBind(c) == c.op = "glBindVertexArray" /\ c.array # 0

IsUniform(c) == c.op = "glUniform1i"

\* the draw a Mesh makes
DrawOf(mesh) ==
    IF mesh.m_index_count > 0
    THEN [op |-> "glDrawElements", mode |-> "GL_TRIANGLES", count |-> mesh.m_index_count]
    ELSE [op |-> "glDrawArrays", mode |-> "GL_TRIANGLES", count |-> mesh.m_vertex_count]

\* C17: a render(program) on a loaded AssetModel succeeds and renders every
\* mesh of the mesh list exactly once, in list order: the vertex arrays
\* bound and the draws made are those of the meshes, one each, in list
\* order; every uniform is set in one and the same program; mesh list,
\* texture cache, loaded flag and Textures are unchanged; a render that
\* follows a render makes the same draws on the same vertex arrays.
C17_RenderInListOrder ==
    [][(m_loaded /\ last'.op = "render")
          => LET draws == SelectSeq(gl_log', IsDraw)
                 arrays == SelectSeq(gl_log', IsArrayBind)
                 uniforms == SelectSeq(gl_log', IsUniform)
             IN  /\ last'.status = "ok"
                 /\ Len(draws) = Len(m_meshes)
                 /\ Len(arrays) = Len(m_meshes)
                 /\ \A i \in DOMAIN m_meshes :
                       /\ arrays[i].array = m_meshes[i].m_vao
                       /\ draws[i] = DrawOf(m_meshes[i])
                 /\ \A j, k \in DOMAIN uniforms :
                       uniforms[j].program = uniforms[k].program
                 /\ UNCHANGED <<assetVars, heap>>
                 /\ (last.op = "render" /\ last.status = "ok")
                       => /\ draws = SelectSeq(gl_log, IsDraw)
                          /\ arrays = SelectSeq(gl_log, IsArrayBind)]_vars

\* a loaded model of three meshes or more, with textures, was rendered twice
C17_Witness ==
    /\ m_loaded
    /\ last.op = "render"
    /\ last.status = "ok"
    /\ importer_calls = 1
    /\ calls > 2
    /\ Len(m_meshes) > 2
    /\ Len(SelectSeq(gl_log, IsDraw)) = Len(m_meshes)
    /\ Len(SelectSeq(gl_log, IsUniform)) > 2

\* the number of <<node, mesh reference>> pairs of a node tree
RECURSIVE MeshReferences(_)
RECURSIVE MeshReferencesOfChildren(_, _)
MeshReferencesOfChildren(children, i) ==
    IF i > Len(children) THEN 0
    ELSE MeshReferences(children[i]) + MeshReferencesOfChildren(children, i + 1)

MeshReferences(node) ==
    Len(node.mMeshes) + MeshReferencesOfChildren(node.mChildren, 1)

\* C18 (as claimed): after a successful load() the mesh list has one Mesh
\* per <<node, mesh reference>> pair of the imported node tree, every Mesh
\* with a vertex array and buffers of its own, while equal texture paths are
\* one shared Texture, held by the cache under that path.
C18_OneMeshPerReference ==
    (last.op = "load" /\ last.imported /\ last.status = "ok")
        => /\ Len(m_meshes) = MeshReferences(last.scene.mRootNode)
           /\ \A i, j \in DOMAIN m_meshes :
                 i # j => /\ m_meshes[i].m_vao # m_meshes[j].m_vao
                          /\ m_meshes[i].m_vbo # m_meshes[j].m_vbo
                          /\ {m_meshes[i].m_vbo, m_meshes[i].m_ebo}
                                \cap {m_meshes[j].m_vbo, m_meshes[j].m_ebo} \subseteq {0}
           /\ \A s, t \in TextureSlots(m_meshes) :
                 LET a == m_meshes[s[1]].m_textures[s[2]]
                     b == m_meshes[t[1]].m_textures[t[2]]
                 IN  heap[a].m_path = heap[b].m_path => a = b
           /\ \A s \in TextureSlots(m_meshes) :
                 \E k \in DOMAIN m_loaded_textures :
                    /\ m_loaded_textures[k] = m_meshes[s[1]].m_textures[s[2]]
                    /\ heap[m_loaded_textures[k]].m_path = join(m_parentdir, k)
           /\ \A k, l \in DOMAIN m_loaded_textures :
                 m_loaded_textures[k] = m_loaded_textures[l] => k = l

=============================================================================
